---------------------------- MODULE Spec2Model ----------------------------
(***************************************************************************)
(* Model of ml-service/app.py: the pattern-based vulnerability scanner     *)
(* (rule catalog, scan engine, confidence, risk aggregation) and its HTTP  *)
(* handlers /api/ml/analyze, /api/ml/batch, /api/ml/patterns, /health.     *)
(*                                                                         *)
(* Text.  A Python str is a sequence of pieces; a piece is a TLA+ string   *)
(* standing for that literal text.  Contract source is a sequence over     *)
(* Tokens; TokLen gives each token's length in characters, so character    *)
(* offsets, the 500-character windows and line numbers are computed as the *)
(* code computes them.  A regular expression of the catalog is held as the *)
(* set of tokens it matches (each matches a token from the token's first   *)
(* character, and never across two tokens).                                *)
(*                                                                         *)
(* Numbers.  Python floats are fixed-point integers: confidences inside    *)
(* calculate_confidence in 1/1000, rounded values (round(x, 2)) in 1/100,  *)
(* severity weights in 1/10.  round(x, 2) of a value that lies exactly     *)
(* half-way between two hundredths depends on the binary representation    *)
(* error of the float; such a tie is resolved by a boolean the caller      *)
(* draws nondeterministically (both outcomes are possible results).        *)
(*                                                                         *)
(* Not modelled: processingTimeMs / timestamp (wall-clock readings) and    *)
(* logging.                                                                *)
(***************************************************************************)
EXTENDS Integers, Sequences, FiniteSets, TLC

VARIABLES
    VULNERABILITY_PATTERNS, \* the rule catalog (module global, app.py:65)
    request,                \* the HTTP request being served, or NoRequest
    response,               \* the response produced for it, or NoResponse
    vulnerabilities,        \* calculate_risk_score's argument (risk run)
    risk_score,             \* its result for `vulnerabilities`
    prev_risk_score,        \* its result before the last finding was added
    half_up                 \* how the float of the last result rounded a tie

vars == <<VULNERABILITY_PATTERNS, request, response,
          vulnerabilities, risk_score, prev_risk_score, half_up>>

----------------------------------------------------------------------------
(* Bounds *)

MaxLen == 3          \* tokens in a contract sent to /api/ml/analyze
MaxBatch == 2        \* entries in a /api/ml/batch request
MaxBatchLen == 1     \* tokens in a contract of a batch entry
MaxFindings == 3     \* findings in calculate_risk_score's argument
MaxLineNumber == 5   \* line numbers given to extract_code_snippet

----------------------------------------------------------------------------
(* Source text *)

TX     == "tx.origin"
SEND   == ".send("
CALL   == ".call("
DCALL  == ".delegatecall("
REQ    == "require("
PRAGMA == "pragma solidity ^0.8.0;"
PLUS   == "+1"
NOW    == "now"
NL     == "\n"
PAD    == "_{492}"      \* 492 underscores
PAD1   == "_{493}"      \* 493 underscores

Tokens == {TX, SEND, CALL, DCALL, REQ, PRAGMA, PLUS, NOW, NL, PAD, PAD1}

BatchTokens == {PRAGMA, DCALL}

TokLen(t) ==
    CASE t = TX     -> 9
      [] t = SEND   -> 6
      [] t = CALL   -> 6
      [] t = DCALL  -> 14
      [] t = REQ    -> 8
      [] t = PRAGMA -> 23
      [] t = PLUS   -> 2
      [] t = NOW    -> 3
      [] t = NL     -> 1
      [] t = PAD    -> 492
      [] t = PAD1   -> 493

RECURSIVE SeqsUpTo(_, _)
SeqsUpTo(S, n) ==
    IF n = 0 THEN {<<>>}
    ELSE LET shorter == SeqsUpTo(S, n - 1)
         IN  shorter \cup {Append(s, t) : s \in shorter, t \in S}

Max(a, b) == IF a >= b THEN a ELSE b
Min(a, b) == IF a <= b THEN a ELSE b

\* len(source_code[:i]) for the text before token i (1-based): its offset
RECURSIVE Offset(_, _)
Offset(source_code, i) ==
    IF i <= 1 THEN 0
    ELSE Offset(source_code, i - 1) + TokLen(source_code[i - 1])

StrLen(source_code) == Offset(source_code, Len(source_code) + 1)

\* str(n) for n >= 0
RECURSIVE Digits(_)
Digits(n) ==
    LET d == <<"0", "1", "2", "3", "4", "5", "6", "7", "8", "9">>
    IN  IF n < 10 THEN <<d[n + 1]>>
        ELSE Append(Digits(n \div 10), d[(n % 10) + 1])

----------------------------------------------------------------------------
(* Rule catalog: VULNERABILITY_PATTERNS, app.py:65-300, in dict order.      *)
(* pattern / exclude / check_before / check_after / context hold the set of *)
(* tokens the regular expression matches.                                   *)

Catalog ==
  <<
    \* app.py:67
    [
      key |-> "reentrancy",
      pattern |-> {SEND},
      check_before |-> {REQ},
      name |-> "Reentrancy Vulnerability",
      description |-> "External call made before state changes, allowing reentrancy attacks",
      severity |-> "CRITICAL",
      category |-> "REENTRANCY",
      cwe_id |-> "CWE-841",
      swc_id |-> "SWC-107",
      recommendation |-> "Use the checks-effects-interactions pattern. Update state variables before making external calls, or use ReentrancyGuard." ],
    \* app.py:80
    [
      key |-> "integer_overflow",
      pattern |-> {PLUS},
      exclude |-> {PRAGMA},
      name |-> "Integer Overflow/Underflow",
      description |-> "Arithmetic operation without overflow protection",
      severity |-> "HIGH",
      category |-> "ARITHMETIC",
      cwe_id |-> "CWE-190",
      swc_id |-> "SWC-101",
      recommendation |-> "Use Solidity 0.8+ with built-in overflow checks, or use SafeMath library for older versions." ],
    \* app.py:93
    [
      key |-> "unchecked_call",
      pattern |-> {CALL, DCALL},
      check_after |-> {REQ},
      name |-> "Unchecked External Call",
      description |-> "Return value of external call not checked",
      severity |-> "HIGH",
      category |-> "UNCHECKED_CALL",
      cwe_id |-> "CWE-252",
      swc_id |-> "SWC-104",
      recommendation |-> "Always check return values of low-level calls: (bool success, ) = addr.call(...); require(success);" ],
    \* app.py:106
    [
      key |-> "tx_origin",
      pattern |-> {TX},
      context |-> {},
      name |-> "tx.origin Authentication",
      description |-> "Using tx.origin for authentication is vulnerable to phishing attacks",
      severity |-> "HIGH",
      category |-> "ACCESS_CONTROL",
      cwe_id |-> "CWE-287",
      swc_id |-> "SWC-115",
      recommendation |-> "Use msg.sender instead of tx.origin for authentication." ],
    \* app.py:119
    [
      key |-> "selfdestruct",
      pattern |-> {},
      check_before |-> {},
      name |-> "Unprotected Selfdestruct",
      description |-> "selfdestruct can be called without proper access control",
      severity |-> "CRITICAL",
      category |-> "ACCESS_CONTROL",
      cwe_id |-> "CWE-284",
      swc_id |-> "SWC-106",
      recommendation |-> "Add proper access control (e.g., onlyOwner modifier) to selfdestruct functions." ],
    \* app.py:132
    [
      key |-> "delegatecall",
      pattern |-> {DCALL},
      name |-> "Delegatecall Usage",
      description |-> "delegatecall executes code in the context of the calling contract",
      severity |-> "HIGH",
      category |-> "DELEGATECALL",
      cwe_id |-> "CWE-829",
      swc_id |-> "SWC-112",
      recommendation |-> "Ensure delegatecall target is trusted. Never use user-supplied addresses with delegatecall." ],
    \* app.py:144
    [
      key |-> "timestamp",
      pattern |-> {NOW},
      context |-> {},
      name |-> "Timestamp Dependence",
      description |-> "Block timestamp can be manipulated by miners within ~15 seconds",
      severity |-> "MEDIUM",
      category |-> "TIME_MANIPULATION",
      cwe_id |-> "CWE-829",
      swc_id |-> "SWC-116",
      recommendation |-> "Don't use block.timestamp for critical logic. For randomness, use Chainlink VRF or commit-reveal schemes." ],
    \* app.py:157
    [
      key |-> "blockhash",
      pattern |-> {},
      name |-> "Blockhash Usage for Randomness",
      description |-> "Using blockhash for randomness is predictable and manipulable",
      severity |-> "MEDIUM",
      category |-> "RANDOMNESS",
      cwe_id |-> "CWE-330",
      swc_id |-> "SWC-120",
      recommendation |-> "Use Chainlink VRF or other secure randomness sources." ],
    \* app.py:169
    [
      key |-> "floating_pragma",
      pattern |-> {PRAGMA},
      name |-> "Floating Pragma",
      description |-> "Contract uses floating pragma which may compile with different versions",
      severity |-> "LOW",
      category |-> "VERSION",
      cwe_id |-> "CWE-1103",
      swc_id |-> "SWC-103",
      recommendation |-> "Lock pragma to specific version: pragma solidity 0.8.19;" ],
    \* app.py:181
    [
      key |-> "outdated_compiler",
      pattern |-> {},
      name |-> "Outdated Compiler Version",
      description |-> "Using outdated Solidity version with known vulnerabilities",
      severity |-> "MEDIUM",
      category |-> "VERSION",
      cwe_id |-> "CWE-1103",
      swc_id |-> "SWC-102",
      recommendation |-> "Upgrade to Solidity 0.8.x for built-in overflow protection and security improvements." ],
    \* app.py:193
    [
      key |-> "default_visibility",
      pattern |-> {},
      name |-> "Default Visibility",
      description |-> "Function visibility not explicitly specified",
      severity |-> "MEDIUM",
      category |-> "VISIBILITY",
      cwe_id |-> "CWE-710",
      swc_id |-> "SWC-100",
      recommendation |-> "Always explicitly declare function visibility (public, private, internal, external)." ],
    \* app.py:205
    [
      key |-> "uninitialized_storage",
      pattern |-> {},
      name |-> "Uninitialized Storage Pointer",
      description |-> "Storage pointer declared without initialization",
      severity |-> "HIGH",
      category |-> "STORAGE",
      cwe_id |-> "CWE-824",
      swc_id |-> "SWC-109",
      recommendation |-> "Initialize storage pointers explicitly or use memory keyword." ],
    \* app.py:217
    [
      key |-> "dos_gas_limit",
      pattern |-> {},
      name |-> "Denial of Service - Gas Limit",
      description |-> "Unbounded loop may exceed block gas limit",
      severity |-> "MEDIUM",
      category |-> "DOS",
      cwe_id |-> "CWE-400",
      swc_id |-> "SWC-128",
      recommendation |-> "Implement pagination or limit loop iterations. Use pull over push pattern." ],
    \* app.py:229
    [
      key |-> "zero_address",
      pattern |-> {},
      name |-> "Missing Zero Address Check",
      description |-> "Address parameter not validated for zero address",
      severity |-> "LOW",
      category |-> "INPUT_VALIDATION",
      cwe_id |-> "CWE-20",
      swc_id |-> "SWC-",
      recommendation |-> "Add require(addr != address(0)) check for address parameters." ],
    \* app.py:241
    [
      key |-> "front_running",
      pattern |-> {},
      name |-> "Potential Front-Running",
      description |-> "Transaction may be vulnerable to front-running attacks",
      severity |-> "MEDIUM",
      category |-> "FRONT_RUNNING",
      cwe_id |-> "CWE-362",
      swc_id |-> "SWC-114",
      recommendation |-> "Implement commit-reveal scheme or use flashbots for sensitive transactions." ],
    \* app.py:253
    [
      key |-> "signature_malleability",
      pattern |-> {},
      name |-> "Signature Malleability",
      description |-> "ecrecover is vulnerable to signature malleability",
      severity |-> "MEDIUM",
      category |-> "CRYPTOGRAPHY",
      cwe_id |-> "CWE-347",
      swc_id |-> "SWC-117",
      recommendation |-> "Use OpenZeppelin's ECDSA library which handles signature malleability." ],
    \* app.py:265
    [
      key |-> "hardcoded_address",
      pattern |-> {},
      exclude |-> {},
      name |-> "Hardcoded Address",
      description |-> "Contract contains hardcoded address",
      severity |-> "INFO",
      category |-> "CODE_QUALITY",
      cwe_id |-> "CWE-798",
      swc_id |-> "",
      recommendation |-> "Consider using constructor parameters or configurable addresses for flexibility." ],
    \* app.py:278
    [
      key |-> "missing_events",
      pattern |-> {},
      name |-> "Missing Event Emission",
      description |-> "State-changing function does not emit events",
      severity |-> "LOW",
      category |-> "CODE_QUALITY",
      cwe_id |-> "",
      swc_id |-> "",
      recommendation |-> "Emit events for all state changes to enable off-chain monitoring." ],
    \* app.py:290
    [
      key |-> "assembly_usage",
      pattern |-> {},
      name |-> "Assembly Usage",
      description |-> "Contract uses inline assembly which bypasses safety checks",
      severity |-> "INFO",
      category |-> "CODE_QUALITY",
      cwe_id |-> "",
      swc_id |-> "",
      recommendation |-> "Ensure assembly code is thoroughly audited. Document why assembly is necessary." ]
  >>


Severities == {"CRITICAL", "HIGH", "MEDIUM", "LOW", "INFO"}

----------------------------------------------------------------------------
(* Regular expressions and floats *)

\* re.search(regex, source_code[lo:hi]): some token the regex matches lies
\* wholly inside the character range [lo, hi)
search(regex, source_code, lo, hi) ==
    \E j \in 1..Len(source_code) :
        /\ source_code[j] \in regex
        /\ Offset(source_code, j) >= lo
        /\ Offset(source_code, j) + TokLen(source_code[j]) <= hi

\* list(re.finditer(pattern, source_code, ...)): the matches left to right,
\* each given as the index of the token it starts
RECURSIVE finditer_from(_, _, _)
finditer_from(pattern, source_code, i) ==
    IF i > Len(source_code) THEN <<>>
    ELSE (IF source_code[i] \in pattern THEN <<i>> ELSE <<>>)
         \o finditer_from(pattern, source_code, i + 1)

finditer(pattern, source_code) == finditer_from(pattern, source_code, 1)

\* round(x, 2): x in 1/1000, result in 1/100; up decides an exact tie
round2(x, up) ==
    LET q == x \div 10
        r == x % 10
    IN  IF r > 5 \/ (r = 5 /\ up) THEN q + 1 ELSE q

\* round(total / n, 2): total in 1/100, result in 1/100
round2_ratio(total, n, up) ==
    LET q == total \div n
        r == total % n
    IN  IF 2 * r > n \/ (2 * r = n /\ up) THEN q + 1 ELSE q

\* the ways a tie can fall, for a value that is / is not a tie
TieOutcomes(is_tie) == IF is_tie THEN BOOLEAN ELSE {FALSE}

----------------------------------------------------------------------------
(* ML-enhanced analysis functions, app.py:306-433 *)

\* calculate_confidence without the code-quality term
calculate_confidence_no_quality(pattern_match, context_match, code_quality_score) ==
    LET base0 == IF pattern_match THEN 700 ELSE 0
        base1 == IF context_match THEN base0 + 200 ELSE base0
    IN  Min(base1, 1000)

\* app.py:306-316; result in 1/1000, code_quality_score in 1/1000
calculate_confidence(pattern_match, context_match, code_quality_score) ==
    LET base0 == IF pattern_match THEN 700 ELSE 0
        base1 == IF context_match THEN base0 + 200 ELSE base0
        base2 == base1 + (code_quality_score * 100) \div 1000
    IN  Min(base2, 1000)

DefaultCodeQualityScore == 500

\* source_code.split('\n')
RECURSIVE split(_)
split(source_code) ==
    IF \A j \in 1..Len(source_code) : source_code[j] # NL
    THEN <<source_code>>
    ELSE LET j == CHOOSE j \in 1..Len(source_code) :
                      /\ source_code[j] = NL
                      /\ \A h \in 1..(j - 1) : source_code[h] # NL
         IN  <<SubSeq(source_code, 1, j - 1)>>
             \o split(SubSeq(source_code, j + 1, Len(source_code)))

\* '\n'.join(snippet_lines[from..])
RECURSIVE join(_, _)
join(snippet_lines, from) ==
    IF from > Len(snippet_lines) THEN <<>>
    ELSE IF from = Len(snippet_lines) THEN snippet_lines[from]
    ELSE snippet_lines[from] \o <<NL>> \o join(snippet_lines, from + 1)

\* extract_code_snippet returning nothing when the only line is empty
extract_code_snippet_skip_blank(source_code, line_number, context_lines) ==
    LET lines == IF source_code = <<>> THEN <<>> ELSE split(source_code)
        start == Max(0, line_number - context_lines - 1)
        end   == Min(Len(lines), line_number + context_lines)
        snippet_lines ==
            [h \in 1..Max(0, end - start) |->
                LET i == start + h
                    prefix == IF i = line_number THEN ">>> " ELSE "    "
                IN  <<prefix>> \o Digits(i) \o <<": ">> \o lines[i]]
    IN  join(snippet_lines, 1)

\* app.py:319-330
extract_code_snippet(source_code, line_number, context_lines) ==
    LET lines == split(source_code)
        start == Max(0, line_number - context_lines - 1)
        end   == Min(Len(lines), line_number + context_lines)
        snippet_lines ==
            [h \in 1..Max(0, end - start) |->
                LET i == start + h
                    prefix == IF i = line_number THEN ">>> " ELSE "    "
                IN  <<prefix>> \o Digits(i) \o <<": ">> \o lines[i]]
    IN  join(snippet_lines, 1)

DefaultContextLines == 2

\* app.py:333-335; match_position is the offset of token i
get_line_number(source_code, i) ==
    Cardinality({j \in 1..(i - 1) : source_code[j] = NL}) + 1

WindowChars == 500

\* is_excluded looking the exclusion pattern up under a misspelt key
is_excluded_wrong_key(vuln_info, source_code) ==
    /\ "excludes" \in DOMAIN vuln_info
    /\ search(vuln_info.excludes, source_code, 0, StrLen(source_code))

\* app.py:349-352: the rule's exclusion pattern matches the source
is_excluded(vuln_info, source_code) ==
    /\ "exclude" \in DOMAIN vuln_info
    /\ search(vuln_info.exclude, source_code, 0, StrLen(source_code))

\* context_match_at with windows one character short
context_match_at_narrow(vuln_info, source_code, i) ==
    LET match_start == Offset(source_code, i)
        match_end   == match_start + TokLen(source_code[i])
        before_found ==
            /\ "check_before" \in DOMAIN vuln_info
            /\ search(vuln_info.check_before, source_code,
                      Max(0, match_start - (WindowChars - 1)), match_start)
        after_found ==
            /\ "check_after" \in DOMAIN vuln_info
            /\ search(vuln_info.check_after, source_code, match_end,
                      Min(StrLen(source_code),
                          match_end + (WindowChars - 1)))
    IN  ~before_found /\ ~after_found

\* app.py:358-369: context_match for the match at token i
context_match_at(vuln_info, source_code, i) ==
    LET match_start == Offset(source_code, i)
        match_end   == match_start + TokLen(source_code[i])
        before_found ==
            /\ "check_before" \in DOMAIN vuln_info
            /\ search(vuln_info.check_before, source_code,
                      Max(0, match_start - WindowChars), match_start)
        after_found ==
            /\ "check_after" \in DOMAIN vuln_info
            /\ search(vuln_info.check_after, source_code, match_end,
                      Min(StrLen(source_code), match_end + WindowChars))
    IN  ~before_found /\ ~after_found

\* skip_mitigated that never skips
skip_mitigated_never(vuln_info, context_match) == FALSE

\* app.py:372: the match is skipped because a mitigation was found
skip_mitigated(vuln_info, context_match) ==
    ~context_match /\ vuln_info.severity \notin {"CRITICAL", "HIGH"}

\* app.py:378-380
adjusted_severity(severity, context_match) ==
    IF ~context_match /\ severity \in {"CRITICAL", "HIGH"}
    THEN "MEDIUM" ELSE severity

\* app.py:379-381; confidence in 1/1000
adjusted_confidence(severity, context_match, confidence) ==
    IF ~context_match /\ severity \in {"CRITICAL", "HIGH"}
    THEN (confidence * 8) \div 10 ELSE confidence

\* app.py:384
vulnerability_id(contract_name, vuln_key, vuln_id) ==
    contract_name \o <<"-", vuln_key, "-">> \o Digits(vuln_id)

\* append_vulnerability without `vuln_id += 1`
append_vulnerability_no_increment(acc, vuln) ==
    [vulnerabilities |-> Append(acc.vulnerabilities, vuln),
     vuln_id |-> acc.vuln_id]

\* append_vulnerability putting the new finding first
append_vulnerability_at_front(acc, vuln) ==
    [vulnerabilities |-> <<vuln>> \o acc.vulnerabilities,
     vuln_id |-> acc.vuln_id + 1]

\* app.py:396-397; acc is [vulnerabilities, vuln_id]
append_vulnerability(acc, vuln) ==
    [vulnerabilities |-> Append(acc.vulnerabilities, vuln),
     vuln_id |-> acc.vuln_id + 1]

\* app.py:347-397, the body of `for match in matches` for the match at
\* token i.  The confidence rounded at app.py:392 is a whole number of
\* hundredths, so no tie arises there.
match_step(vuln_info, source_code, contract_name, i, acc) ==
    LET line_number  == get_line_number(source_code, i)
        code_snippet == extract_code_snippet(source_code, line_number,
                                             DefaultContextLines)
        context_match == context_match_at(vuln_info, source_code, i)
        confidence == calculate_confidence(TRUE, context_match,
                                           DefaultCodeQualityScore)
        vuln == [id |-> vulnerability_id(contract_name, vuln_info.key,
                                         acc.vuln_id),
                 name |-> vuln_info.name,
                 description |-> vuln_info.description,
                 severity |-> adjusted_severity(vuln_info.severity,
                                                context_match),
                 category |-> vuln_info.category,
                 line_number |-> line_number,
                 code_snippet |-> code_snippet,
                 recommendation |-> vuln_info.recommendation,
                 confidence |->
                     round2(adjusted_confidence(vuln_info.severity,
                                                context_match, confidence),
                            FALSE),
                 cwe_id |-> vuln_info.cwe_id,
                 swc_id |-> vuln_info.swc_id]
    IN  IF is_excluded(vuln_info, source_code) THEN acc
        ELSE IF skip_mitigated(vuln_info, context_match) THEN acc
        ELSE append_vulnerability(acc, vuln)

RECURSIVE match_loop(_, _, _, _, _, _)
match_loop(vuln_info, source_code, contract_name, matches, m, acc) ==
    IF m > Len(matches) THEN acc
    ELSE match_loop(vuln_info, source_code, contract_name, matches, m + 1,
                    match_step(vuln_info, source_code, contract_name,
                               matches[m], acc))

\* app.py:343-397, the loop over the catalog from its k-th rule on
RECURSIVE rule_loop(_, _, _, _, _)
rule_loop(patterns, source_code, contract_name, k, acc) ==
    IF k > Len(patterns) THEN acc
    ELSE LET vuln_info == patterns[k]
             matches == finditer(vuln_info.pattern, source_code)
         IN  rule_loop(patterns, source_code, contract_name, k + 1,
                       match_loop(vuln_info, source_code, contract_name,
                                  matches, 1, acc))

\* app.py:338-399; patterns is the global VULNERABILITY_PATTERNS it reads
analyze_contract_patterns(patterns, source_code, contract_name) ==
    rule_loop(patterns, source_code, contract_name, 1,
              [vulnerabilities |-> <<>>, vuln_id |-> 1]).vulnerabilities


\* app.py:407-413 and the default of severity_weights.get, in 1/10
severity_weight(severity) ==
    CASE severity = "CRITICAL" -> 100
      [] severity = "HIGH"     -> 70
      [] severity = "MEDIUM"   -> 40
      [] severity = "LOW"      -> 20
      [] severity = "INFO"     -> 5
      [] OTHER                 -> 10

\* app.py:415-418, in 1/1000
RECURSIVE total_weight(_, _)
total_weight(vulns, n) ==
    IF n = 0 THEN 0
    ELSE total_weight(vulns, n - 1)
         + severity_weight(vulns[n].severity) * vulns[n].confidence

MaxScore == 100000

\* unrounded_risk_score without the min against max_score
unrounded_risk_score_unclamped(vulns) ==
    total_weight(vulns, Len(vulns)) * 5

\* app.py:422, in 1/1000
unrounded_risk_score(vulns) ==
    Min(total_weight(vulns, Len(vulns)) * 5, MaxScore)

\* app.py:402-424, in 1/100
calculate_risk_score(vulns, up) ==
    IF Len(vulns) = 0 THEN 0
    ELSE round2(unrounded_risk_score(vulns), up)

RiskTie(vulns) == Len(vulns) > 0 /\ unrounded_risk_score(vulns) % 10 = 5

\* count_by_field tallying a finding under the value its rule declares
count_by_field_declared(vulns, field) ==
    LET declared(v) ==
            LET k == CHOOSE k \in 1..Len(Catalog) : Catalog[k].name = v.name
            IN  Catalog[k][field]
    IN  [value \in {declared(vulns[i]) : i \in 1..Len(vulns)} |->
            Cardinality({i \in 1..Len(vulns) : declared(vulns[i]) = value})]

\* app.py:427-433; the dict as a function on the values that occur
count_by_field(vulns, field) ==
    [value \in {vulns[i][field] : i \in 1..Len(vulns)} |->
        Cardinality({i \in 1..Len(vulns) : vulns[i][field] = value})]

RECURSIVE sum_confidence(_, _)
sum_confidence(vulns, n) ==
    IF n = 0 THEN 0 ELSE sum_confidence(vulns, n - 1) + vulns[n].confidence

\* app.py:502-504 with the round of app.py:531, in 1/100
model_confidence(vulns, up) ==
    IF Len(vulns) = 0 THEN 0
    ELSE round2_ratio(sum_confidence(vulns, Len(vulns)), Len(vulns), up)

ConfidenceTie(vulns) ==
    /\ Len(vulns) > 0
    /\ 2 * (sum_confidence(vulns, Len(vulns)) % Len(vulns)) = Len(vulns)

----------------------------------------------------------------------------
(* JSON values of request bodies *)

JMissing == [t |-> "missing", s |-> <<>>, n |-> 0]   \* key absent
JStr(x)  == [t |-> "str", s |-> x, n |-> 0]          \* a string
JNum(k)  == [t |-> "num", s |-> <<>>, n |-> k]       \* a number

\* Python truth value of dict.get(key, '')
Truthy(j) ==
    CASE j.t = "missing" -> FALSE
      [] j.t = "str"     -> Len(j.s) > 0
      [] j.t = "num"     -> j.n # 0

\* app.py:513-525 and 583-595: a Vulnerability as its JSON object
vulnerability_json(v) ==
    [id |-> v.id,
     name |-> v.name,
     description |-> v.description,
     severity |-> v.severity,
     category |-> v.category,
     lineNumber |-> v.line_number,
     codeSnippet |-> v.code_snippet,
     recommendation |-> v.recommendation,
     confidence |-> v.confidence,
     cweId |-> v.cwe_id,
     swcId |-> v.swc_id]

vulnerabilities_json(vulns) ==
    [i \in 1..Len(vulns) |-> vulnerability_json(vulns[i])]

TypeErrorText == "expected string or bytes-like object, got 'int'"
AttributeErrorText == "'str' object has no attribute 'get'"

----------------------------------------------------------------------------
(* API endpoints, app.py:440-643 *)

NoData == [t |-> "none", contractCode |-> JMissing, contractName |-> JMissing]

\* app.py:441-448
health_check_response ==
    [status |-> 200,
     body |-> [status |-> "healthy",
               service |-> "ml-vulnerability-detection",
               version |-> "1.0.0"]]

\* app.py:452-555; data is request.get_json(): NoData for no / empty JSON,
\* else an object whose contractCode / contractName are JSON values
analyze_contract_response(patterns, data, up_risk, up_confidence) ==
    IF data.t = "none"
    THEN [status |-> 400,
          body |-> [success |-> FALSE,
                    message |-> <<"No JSON data provided">>,
                    vulnerabilities |-> <<>>,
                    metrics |-> <<>>]]
    ELSE
    LET contract_code == data.contractCode
        contract_name == IF data.contractName.t = "missing"
                         THEN <<"Unknown">>
                         ELSE data.contractName.s
    IN  IF ~Truthy(contract_code)
        THEN [status |-> 400,
              body |-> [success |-> FALSE,
                        message |-> <<"Contract code is required">>,
                        vulnerabilities |-> <<>>,
                        metrics |-> <<>>]]
        ELSE IF contract_code.t # "str"
        \* re.finditer raises TypeError, caught at app.py:547
        THEN [status |-> 500,
              body |-> [success |-> FALSE,
                        message |-> <<"Analysis failed: ", TypeErrorText>>,
                        vulnerabilities |-> <<>>,
                        metrics |-> <<>>]]
        ELSE
        LET vulns == analyze_contract_patterns(patterns, contract_code.s,
                                               contract_name)
        IN  [status |-> 200,
             body |-> [success |-> TRUE,
                       message |-> <<"Analysis completed. Found ">>
                                   \o Digits(Len(vulns))
                                   \o <<" potential vulnerabilities.">>,
                       contractName |-> contract_name,
                       vulnerabilities |-> vulnerabilities_json(vulns),
                       metrics |->
                         [overallRiskScore |->
                              calculate_risk_score(vulns, up_risk),
                          totalVulnerabilities |-> Len(vulns),
                          severityCount |-> count_by_field(vulns, "severity"),
                          categoryCount |-> count_by_field(vulns, "category"),
                          modelConfidence |->
                              model_confidence(vulns, up_confidence)]]]

\* the findings the handler scans for data, <<>> when it scans nothing
analyze_findings(patterns, data) ==
    IF data.t = "obj" /\ Truthy(data.contractCode)
       /\ data.contractCode.t = "str"
    THEN analyze_contract_patterns(
             patterns, data.contractCode.s,
             IF data.contractName.t = "missing" THEN <<"Unknown">>
             ELSE data.contractName.s)
    ELSE <<>>

\* every response the handler can give for data
analyze_contract_responses(patterns, data) ==
    LET vulns == analyze_findings(patterns, data)
    IN  {analyze_contract_response(patterns, data, up_risk, up_confidence) :
            up_risk \in TieOutcomes(RiskTie(vulns)),
            up_confidence \in TieOutcomes(ConfidenceTie(vulns))}

\* app.py:578-602: the scan of one entry and its result object
batch_scan_result(patterns, contract_code, contract_name, up) ==
    LET vulns == analyze_contract_patterns(patterns, contract_code,
                                           contract_name)
    IN  [success |-> TRUE,
         vulnerabilities |-> vulnerabilities_json(vulns),
         metrics |->
           [overallRiskScore |-> calculate_risk_score(vulns, up),
            totalVulnerabilities |-> Len(vulns),
            severityCount |-> count_by_field(vulns, "severity"),
            categoryCount |-> count_by_field(vulns, "category")]]

\* batch_entry scanning every contract under the name 'Unknown'
batch_entry_default_name(patterns, contract_name, contract_data, up) ==
    IF contract_data.t # "obj"
    THEN [raised |-> TRUE, value |-> AttributeErrorText]
    ELSE
    LET contract_code == contract_data.contractCode
    IN  IF Truthy(contract_code)
        THEN IF contract_code.t # "str"
             THEN [raised |-> TRUE, value |-> TypeErrorText]
             ELSE [raised |-> FALSE,
                   value |-> batch_scan_result(patterns, contract_code.s,
                                               <<"Unknown">>, up)]
        ELSE [raised |-> FALSE,
              value |-> [success |-> FALSE,
                         message |-> <<"No contract code provided">>]]

\* app.py:575-607, the body of the loop for one entry of the batch:
\* [raised |-> FALSE, value |-> results[contract_name]] or, when the body
\* raises (contract_data.get on a non-object, re.finditer on a non-string),
\* [raised |-> TRUE, value |-> str(e)]
batch_entry(patterns, contract_name, contract_data, up) ==
    IF contract_data.t # "obj"
    THEN [raised |-> TRUE, value |-> AttributeErrorText]
    ELSE
    LET contract_code == contract_data.contractCode
    IN  IF Truthy(contract_code)
        THEN IF contract_code.t # "str"
             THEN [raised |-> TRUE, value |-> TypeErrorText]
             ELSE [raised |-> FALSE,
                   value |-> batch_scan_result(patterns, contract_code.s,
                                               contract_name, up)]
        ELSE [raised |-> FALSE,
              value |-> [success |-> FALSE,
                         message |-> <<"No contract code provided">>]]

\* app.py:572-607, the loop over data.items() from its i-th entry on
RECURSIVE batch_loop(_, _, _, _, _)
batch_loop(patterns, data, i, results, ups) ==
    IF i > Len(data) THEN [raised |-> FALSE, value |-> results]
    ELSE LET out == batch_entry(patterns, data[i].name, data[i].data, ups[i])
         IN  IF out.raised THEN out
             ELSE batch_loop(
                      patterns, data, i + 1,
                      [n \in DOMAIN results \cup {data[i].name} |->
                          IF n = data[i].name THEN out.value ELSE results[n]],
                      ups)

\* app.py:559-620; data is the JSON object as its items in order
batch_analyze_response(patterns, data, ups) ==
    IF Len(data) = 0
    THEN [status |-> 400,
          body |-> [success |-> FALSE,
                    message |->
                      <<"Expected object with contract names as keys">>]]
    ELSE LET out == batch_loop(patterns, data, 1, <<>>, ups)
         IN  IF out.raised
             THEN [status |-> 500,
                   body |-> [success |-> FALSE,
                             message |-> <<"Batch analysis failed: ",
                                           out.value>>]]
             ELSE [status |-> 200,
                   body |-> [success |-> TRUE, results |-> out.value]]

\* the findings the loop scans for an entry, <<>> when it scans nothing
entry_findings(patterns, entry) ==
    IF entry.data.t = "obj" /\ Truthy(entry.data.contractCode)
       /\ entry.data.contractCode.t = "str"
    THEN analyze_contract_patterns(patterns, entry.data.contractCode.s,
                                   entry.name)
    ELSE <<>>

\* every response the handler can give for data
batch_analyze_responses(patterns, data) ==
    LET ties == [i \in 1..Len(data) |->
                    RiskTie(entry_findings(patterns, data[i]))]
    IN  {batch_analyze_response(patterns, data, ups) :
            ups \in {f \in [1..Len(data) -> BOOLEAN] :
                        \A i \in 1..Len(data) : f[i] => ties[i]}}

\* app.py:624-643
list_patterns_response(patterns) ==
    [status |-> 200,
     body |-> [success |-> TRUE,
               totalPatterns |-> Len(patterns),
               patterns |->
                 [k \in 1..Len(patterns) |->
                    [id |-> patterns[k].key,
                     name |-> patterns[k].name,
                     description |-> patterns[k].description,
                     severity |-> patterns[k].severity,
                     category |-> patterns[k].category,
                     cwdId |-> patterns[k].cwe_id,
                     swcId |-> patterns[k].swc_id]]]]

----------------------------------------------------------------------------
(* Requests *)

NameLetters == <<"A", "B", "C", "D">>

ContractNames == {<<NameLetters[k]>> : k \in 1..Min(MaxBatch, Len(NameLetters))}

AnalyzeCodes ==
    {JMissing, JNum(0), JNum(5)}
    \cup {JStr(s) : s \in SeqsUpTo(Tokens, MaxLen)}

AnalyzeData ==
    {NoData}
    \cup {[t |-> "obj", contractCode |-> c, contractName |-> n] :
             c \in AnalyzeCodes, n \in {JMissing, JStr(<<"A">>)}}

NotAnObject == [t |-> "str", contractCode |-> JMissing]

BatchEntries ==
    {NotAnObject}
    \cup {[t |-> "obj", contractCode |-> c] :
             c \in {JMissing, JNum(5)}
                   \cup {JStr(s) : s \in SeqsUpTo(BatchTokens, MaxBatchLen)}}

BatchData ==
    {data \in SeqsUpTo({[name |-> n, data |-> e] :
                           n \in ContractNames, e \in BatchEntries}, MaxBatch) :
        \A i, j \in 1..Len(data) : data[i].name = data[j].name => i = j}

NoRequest == [route |-> "none"]
NoResponse == [status |-> 0]

----------------------------------------------------------------------------
(* The service: one request is served at a time *)

Init ==
    /\ VULNERABILITY_PATTERNS = Catalog
    /\ request = NoRequest
    /\ response = NoResponse
    /\ vulnerabilities = <<>>
    /\ risk_score = 0
    /\ prev_risk_score = 0
    /\ half_up = FALSE

RiskVars == <<vulnerabilities, risk_score, prev_risk_score, half_up>>

\* a request arrives and is routed to its handler
receive_request ==
    /\ request.route = "none"
    /\ \/ request' \in {[route |-> "/health"], [route |-> "/api/ml/patterns"]}
       \/ \E data \in AnalyzeData :
              request' = [route |-> "/api/ml/analyze", data |-> data]
       \/ \E data \in BatchData :
              request' = [route |-> "/api/ml/batch", data |-> data]
    /\ UNCHANGED <<VULNERABILITY_PATTERNS, response, RiskVars>>

Pending(route) == request.route = route /\ response.status = 0

health_check ==
    /\ Pending("/health")
    /\ response' = health_check_response
    /\ UNCHANGED <<VULNERABILITY_PATTERNS, request, RiskVars>>

analyze_contract ==
    /\ Pending("/api/ml/analyze")
    /\ response' \in
           analyze_contract_responses(VULNERABILITY_PATTERNS, request.data)
    /\ UNCHANGED <<VULNERABILITY_PATTERNS, request, RiskVars>>

batch_analyze ==
    /\ Pending("/api/ml/batch")
    /\ response' \in
           batch_analyze_responses(VULNERABILITY_PATTERNS, request.data)
    /\ UNCHANGED <<VULNERABILITY_PATTERNS, request, RiskVars>>

list_patterns ==
    /\ Pending("/api/ml/patterns")
    /\ response' = list_patterns_response(VULNERABILITY_PATTERNS)
    /\ UNCHANGED <<VULNERABILITY_PATTERNS, request, RiskVars>>

\* the response is returned to the client; the next request can be served
send_response ==
    /\ response.status # 0
    /\ request' = NoRequest
    /\ response' = NoResponse
    /\ UNCHANGED <<VULNERABILITY_PATTERNS, RiskVars>>

Next ==
    \/ receive_request
    \/ health_check
    \/ analyze_contract
    \/ batch_analyze
    \/ list_patterns
    \/ send_response

Spec == Init /\ [][Next]_vars

----------------------------------------------------------------------------
(* The scan engine over catalogs that differ from the shipped one in the   *)
(* declared severity of one rule.  analyze_contract_patterns reads every   *)
(* rule's severity from the catalog; no shipped rule of severity MEDIUM,   *)
(* LOW or INFO has a check_before / check_after pattern.                   *)

with_severity(patterns, key, severity) ==
    [k \in 1..Len(patterns) |->
        IF patterns[k].key = key
        THEN [patterns[k] EXCEPT !.severity = severity]
        ELSE patterns[k]]

RuleCatalogs ==
    {with_severity(Catalog, key, severity) :
        key \in {"reentrancy", "integer_overflow", "unchecked_call"},
        severity \in Severities}

RuleTokens == {SEND, CALL, REQ, PLUS, PRAGMA, PAD, PAD1}

RuleData ==
    {[t |-> "obj", contractCode |-> JStr(s), contractName |-> JStr(<<"A">>)] :
        s \in SeqsUpTo(RuleTokens, MaxLen)}

InitRules ==
    /\ VULNERABILITY_PATTERNS \in RuleCatalogs
    /\ request = NoRequest
    /\ response = NoResponse
    /\ vulnerabilities = <<>>
    /\ risk_score = 0
    /\ prev_risk_score = 0
    /\ half_up = FALSE

receive_scan_request ==
    /\ request.route = "none"
    /\ \E data \in RuleData :
           request' = [route |-> "/api/ml/analyze", data |-> data]
    /\ UNCHANGED <<VULNERABILITY_PATTERNS, response, RiskVars>>

NextRules ==
    \/ receive_scan_request
    \/ analyze_contract
    \/ send_response

SpecRules == InitRules /\ [][NextRules]_vars

----------------------------------------------------------------------------
(* calculate_risk_score on a list of findings that grows by one finding    *)

RiskConfidences == {0, 60, 95, 100}

RiskFindings ==
    [severity : Severities \cup {"UNKNOWN"}, confidence : RiskConfidences]

\* vulnerabilities.append(f) and the score of the longer list.  The float
\* total of the longer list is the old total plus weight * confidence:
\* when that product is 0.0 the total, and so the way it rounds, is the
\* same as before.
add_finding ==
    /\ Len(vulnerabilities) < MaxFindings
    /\ \E f \in RiskFindings :
          LET longer == Append(vulnerabilities, f)
              same_total == /\ Len(vulnerabilities) > 0
                            /\ severity_weight(f.severity) * f.confidence = 0
          IN  /\ vulnerabilities' = longer
              /\ \E up \in TieOutcomes(RiskTie(longer)) :
                    /\ same_total => up = half_up
                    /\ half_up' = up
                    /\ risk_score' = calculate_risk_score(longer, up)
              /\ prev_risk_score' = risk_score
    /\ UNCHANGED <<VULNERABILITY_PATTERNS, request, response>>

NextRisk == add_finding

SpecRisk == Init /\ [][NextRisk]_vars

----------------------------------------------------------------------------
(* extract_code_snippet on its own: any source text and line number, with  *)
(* the default context_lines.  request holds the call's arguments and      *)
(* response its return value.                                              *)

SnippetTokens == {NL, TX, NOW}

SnippetCalls ==
    [route : {"extract_code_snippet"},
     source_code : SeqsUpTo(SnippetTokens, MaxLen),
     line_number : 1..MaxLineNumber]

InitSnippet ==
    /\ VULNERABILITY_PATTERNS = Catalog
    /\ request \in SnippetCalls
    /\ response = NoResponse
    /\ vulnerabilities = <<>>
    /\ risk_score = 0
    /\ prev_risk_score = 0
    /\ half_up = FALSE

\* the call returns; status 1 marks a returned value
extract_snippet ==
    /\ Pending("extract_code_snippet")
    /\ response' =
           [status |-> 1,
            snippet |-> extract_code_snippet(request.source_code,
                                             request.line_number,
                                             DefaultContextLines)]
    /\ UNCHANGED <<VULNERABILITY_PATTERNS, request, RiskVars>>

NextSnippet == extract_snippet

SpecSnippet == InitSnippet /\ [][NextSnippet]_vars

----------------------------------------------------------------------------
(* Properties of a scan, read off the response of /api/ml/analyze *)

\* the handler has answered a scan of ScanSource under ScanName
ScanDone == request.route = "/api/ml/analyze" /\ response.status = 200

ScanSource == request.data.contractCode.s

ScanName ==
    IF request.data.contractName.t = "missing" THEN <<"Unknown">>
    ELSE request.data.contractName.s

ScanFindings == response.body.vulnerabilities

\* the findings of the output that a rule produced, in output order
RuleFindings(rule) == SelectSeq(ScanFindings, LAMBDA f : f.name = rule.name)

PlainRule(rule) ==
    {"check_before", "check_after", "exclude"} \cap DOMAIN rule = {}

HasMitigation(rule) ==
    {"check_before", "check_after"} \cap DOMAIN rule # {}

\* the rule's exclusion pattern occurs somewhere in the source
ExclusionHit(rule, source) ==
    /\ "exclude" \in DOMAIN rule
    /\ \E j \in 1..Len(source) : source[j] \in rule.exclude

\* a mitigation of the rule lies within 500 characters before the start, or
\* within 500 characters after the end, of the match at token i
MitigatedMatch(rule, source, i) ==
    \/ /\ "check_before" \in DOMAIN rule
       /\ \E j \in 1..(i - 1) :
              /\ source[j] \in rule.check_before
              /\ Offset(source, i) - Offset(source, j) <= 500
    \/ /\ "check_after" \in DOMAIN rule
       /\ \E j \in (i + 1)..Len(source) :
              /\ source[j] \in rule.check_after
              /\ Offset(source, j + 1) - Offset(source, i + 1) <= 500

\* every match of a plain rule has its own finding, with the rule's
\* severity, category and classification, and the given confidence
PlainMatchFindings(confidence) ==
    ScanDone =>
        \A k \in 1..Len(VULNERABILITY_PATTERNS) :
            LET rule == VULNERABILITY_PATTERNS[k]
                ms == finditer(rule.pattern, ScanSource)
                fs == RuleFindings(rule)
            IN  PlainRule(rule) =>
                    /\ Len(fs) = Len(ms)
                    /\ \A m \in 1..Len(ms) :
                          /\ fs[m].lineNumber
                                 = get_line_number(ScanSource, ms[m])
                          /\ fs[m].severity = rule.severity
                          /\ fs[m].category = rule.category
                          /\ fs[m].swcId = rule.swc_id
                          /\ fs[m].confidence = confidence

\* C1 (as amended): for every rule with no check_before, check_after or
\* exclude pattern, every match of the primary pattern yields exactly one
\* Finding, with the rule's declared severity and confidence 0.95
\* (0.7 + 0.2 + 0.5 x 0.1).
C1_PlainMatchConfidence95 == PlainMatchFindings(95)

\* C1 (as stated): ... and confidence 0.90.
C1_PlainMatchConfidence90 == PlainMatchFindings(90)

\* C1 witness: two tx.origin matches, each with its HIGH / ACCESS_CONTROL /
\* SWC-115 finding of confidence 0.95
C1_Witness ==
    /\ ScanDone
    /\ Cardinality({i \in 1..Len(ScanSource) : ScanSource[i] = TX}) = 2
    /\ Cardinality({i \in 1..Len(ScanFindings) :
                       /\ ScanFindings[i].severity = "HIGH"
                       /\ ScanFindings[i].category = "ACCESS_CONTROL"
                       /\ ScanFindings[i].swcId = "SWC-115"
                       /\ ScanFindings[i].confidence = 95}) = 2

\* every match of a CRITICAL / HIGH rule with a mitigation pattern has its
\* own finding; a match with the mitigation in its window has severity
\* MEDIUM and the given confidence
MitigatedMatchFindings(confidence) ==
    ScanDone =>
        \A k \in 1..Len(VULNERABILITY_PATTERNS) :
            LET rule == VULNERABILITY_PATTERNS[k]
                ms == finditer(rule.pattern, ScanSource)
                fs == RuleFindings(rule)
            IN  (/\ rule.severity \in {"CRITICAL", "HIGH"}
                 /\ HasMitigation(rule)
                 /\ ~ExclusionHit(rule, ScanSource)) =>
                    /\ Len(fs) = Len(ms)
                    /\ \A m \in 1..Len(ms) :
                          MitigatedMatch(rule, ScanSource, ms[m]) =>
                              /\ fs[m].severity = "MEDIUM"
                              /\ fs[m].confidence = confidence

\* C2 (as amended): for a CRITICAL or HIGH rule, a match whose check_before
\* or check_after mitigation is found in its 500-character window still
\* yields a Finding, of severity MEDIUM and confidence
\* round((0.7 + 0.05) x 0.8, 2) = 0.60.
C2_DowngradeConfidence60 == MitigatedMatchFindings(60)

\* C2 (as stated): ... and confidence round(0.9 x 0.8, 2) = 0.72.
C2_DowngradeConfidence72 == MitigatedMatchFindings(72)

\* C2 witness: a CRITICAL rule's match with the mitigation exactly 500
\* characters before it, reported MEDIUM with confidence 0.60
C2_Witness ==
    /\ ScanDone
    /\ \E k \in 1..Len(VULNERABILITY_PATTERNS) :
          LET rule == VULNERABILITY_PATTERNS[k]
              ms == finditer(rule.pattern, ScanSource)
              fs == RuleFindings(rule)
          IN  /\ rule.severity = "CRITICAL"
              /\ Len(fs) = Len(ms)
              /\ \E m \in 1..Len(ms) :
                    /\ \E j \in 1..(ms[m] - 1) :
                          /\ ScanSource[j] \in rule.check_before
                          /\ Offset(ScanSource, ms[m])
                                 - Offset(ScanSource, j) = 500
                    /\ fs[m].severity = "MEDIUM"
                    /\ fs[m].confidence = 60

\* the matches of a rule that are not mitigated, left to right
UnmitigatedMatches(rule, source) ==
    SelectSeq(finditer(rule.pattern, source),
              LAMBDA i : ~MitigatedMatch(rule, source, i))

\* C3: for a rule of declared severity MEDIUM, LOW or INFO, a match with a
\* check_before / check_after mitigation in range produces no Finding: the
\* rule's findings are exactly those of its unmitigated matches.
C3_Suppression ==
    ScanDone =>
        \A k \in 1..Len(VULNERABILITY_PATTERNS) :
            LET rule == VULNERABILITY_PATTERNS[k]
                kept == UnmitigatedMatches(rule, ScanSource)
                fs == RuleFindings(rule)
            IN  (/\ rule.severity \notin {"CRITICAL", "HIGH"}
                 /\ ~ExclusionHit(rule, ScanSource)) =>
                    /\ Len(fs) = Len(kept)
                    /\ \A m \in 1..Len(kept) :
                          /\ fs[m].lineNumber
                                 = get_line_number(ScanSource, kept[m])
                          /\ fs[m].severity = rule.severity
                          /\ fs[m].confidence = 95

\* C3 witness: a MEDIUM / LOW / INFO rule with a mitigated match and an
\* unmitigated one in the same source, and a finding for the latter only
C3_Witness ==
    /\ ScanDone
    /\ \E k \in 1..Len(VULNERABILITY_PATTERNS) :
          LET rule == VULNERABILITY_PATTERNS[k]
              ms == finditer(rule.pattern, ScanSource)
          IN  /\ rule.severity \in {"MEDIUM", "LOW", "INFO"}
              /\ HasMitigation(rule)
              /\ Len(ms) = 2
              /\ Len(UnmitigatedMatches(rule, ScanSource)) = 1
              /\ Len(RuleFindings(rule)) = 1

\* the matches of a rule that survive the mitigation policy, left to right
SurvivingMatches(rule, source) ==
    SelectSeq(finditer(rule.pattern, source),
              LAMBDA i : \/ rule.severity \in {"CRITICAL", "HIGH"}
                         \/ ~MitigatedMatch(rule, source, i))

\* C4: a rule whose exclusion pattern matches anywhere in the source has no
\* Finding in the output, whatever its severity and however often its
\* primary pattern matches; every other rule keeps one Finding for each of
\* its surviving matches.
C4_Exclusion ==
    ScanDone =>
        \A k \in 1..Len(VULNERABILITY_PATTERNS) :
            LET rule == VULNERABILITY_PATTERNS[k]
                fs == RuleFindings(rule)
            IN  IF ExclusionHit(rule, ScanSource)
                THEN Len(fs) = 0
                ELSE Len(fs) = Len(SurvivingMatches(rule, ScanSource))

\* C4 witness: under the shipped catalog, a rule excluded although its
\* primary pattern matches twice, next to a finding of another rule
C4_Witness ==
    /\ ScanDone
    /\ VULNERABILITY_PATTERNS = Catalog
    /\ \E k \in 1..Len(VULNERABILITY_PATTERNS) :
          LET rule == VULNERABILITY_PATTERNS[k]
          IN  /\ ExclusionHit(rule, ScanSource)
              /\ Len(finditer(rule.pattern, ScanSource)) = 2
              /\ Len(RuleFindings(rule)) = 0
    /\ Len(ScanFindings) > 0

----------------------------------------------------------------------------
(* Properties of a batch, read off the response of /api/ml/batch *)

BatchDone == request.route = "/api/ml/batch" /\ response.status # 0

BatchItems == request.data

\* processing the entry raises: it is no JSON object, or its contractCode
\* is a non-empty value that is no string
EntryRaises(e) ==
    \/ e.t # "obj"
    \/ e.contractCode.t = "num" /\ e.contractCode.n # 0

\* the entry is an object whose contractCode is empty or missing
EntryEmpty(e) ==
    /\ e.t = "obj"
    /\ \/ e.contractCode.t = "missing"
       \/ e.contractCode.t = "str" /\ Len(e.contractCode.s) = 0

\* the entry is an object whose contractCode is a non-empty text
EntryHasCode(e) ==
    /\ e.t = "obj"
    /\ e.contractCode.t = "str"
    /\ Len(e.contractCode.s) > 0

\* the entry named n has a result in the batch response
HasResult(n) ==
    /\ response.status = 200
    /\ n \in DOMAIN response.body.results

\* C5: an exception raised while processing one entry of a batch is confined
\* to that entry: every sibling entry with code still gets its own
\* successful scan result, and the batch is not aborted.
C5_BatchFaultIsolated ==
    BatchDone =>
        \A i, j \in 1..Len(BatchItems) :
            (/\ EntryRaises(BatchItems[i].data)
             /\ EntryHasCode(BatchItems[j].data)) =>
                /\ HasResult(BatchItems[j].name)
                /\ response.body.results[BatchItems[j].name].success

\* the findings of scanning source alone under name, as /api/ml/analyze
\* returns them
SoloFindings(source, name) ==
    analyze_contract_response(
        VULNERABILITY_PATTERNS,
        [t |-> "obj", contractCode |-> JStr(source),
         contractName |-> JStr(name)],
        FALSE, FALSE).body.vulnerabilities

\* C6: in a batch, an entry whose contractCode is empty or missing is
\* reported as exactly {success: false, message: "No contract code
\* provided"}, and every entry with non-empty code gets a success: true
\* result with its findings.
C6_BatchEntryValidation ==
    BatchDone =>
        \A i \in 1..Len(BatchItems) :
            LET e == BatchItems[i].data
                n == BatchItems[i].name
            IN  /\ EntryEmpty(e) =>
                      /\ HasResult(n)
                      /\ response.body.results[n]
                             = [success |-> FALSE,
                                message |-> <<"No contract code provided">>]
                /\ EntryHasCode(e) =>
                      /\ HasResult(n)
                      /\ response.body.results[n].success
                      /\ response.body.results[n].vulnerabilities
                             = SoloFindings(e.contractCode.s, n)

\* C6 restricted to batches none of whose entries raises (holds)
C6_WithoutRaisingEntry ==
    (/\ BatchDone
     /\ \A i \in 1..Len(BatchItems) : ~EntryRaises(BatchItems[i].data))
        => C6_BatchEntryValidation

----------------------------------------------------------------------------
(* Risk score *)

\* C7: adding a finding with confidence in [0, 1] never lowers the risk
\* score, the score lies in [0, 100], and it is 0 for no findings.
C7_RiskMonotoneClamped ==
    /\ risk_score >= prev_risk_score
    /\ risk_score >= 0
    /\ risk_score <= 10000
    /\ Len(vulnerabilities) = 0 => risk_score = 0

\* C7 witness: the finding added last takes the weighted total over the
\* cap, and the score goes up to 100 exactly
C7_Witness ==
    /\ Len(vulnerabilities) >= 2
    /\ total_weight(vulnerabilities, Len(vulnerabilities)) * 5 > MaxScore
    /\ prev_risk_score < 10000
    /\ risk_score = 10000

----------------------------------------------------------------------------
(* Finding identifiers *)

\* the key of the catalog rule that produced finding f
RuleKeyOf(f) ==
    LET k == CHOOSE k \in 1..Len(VULNERABILITY_PATTERNS) :
                 VULNERABILITY_PATTERNS[k].name = f.name
    IN  VULNERABILITY_PATTERNS[k].key

\* C8: in one scan's output the k-th Finding has the identifier
\* contractName-ruleId-k, ruleId being the rule that produced it; the
\* identifiers of one output are pairwise distinct.
C8_FindingIdentifiers ==
    ScanDone =>
        /\ \A k \in 1..Len(ScanFindings) :
              ScanFindings[k].id
                  = ScanName \o <<"-", RuleKeyOf(ScanFindings[k]), "-">>
                    \o Digits(k)
        /\ \A j, k \in 1..Len(ScanFindings) :
              ScanFindings[j].id = ScanFindings[k].id => j = k

\* C8 witness: findings of two rules in one output, numbered on across the
\* rules, while an excluded match of a third rule took no ordinal
C8_Witness ==
    /\ ScanDone
    /\ Len(ScanFindings) = 2
    /\ ScanFindings[1].name # ScanFindings[2].name
    /\ SubSeq(ScanFindings[2].id, Len(ScanName) + 4,
              Len(ScanFindings[2].id)) = <<"2">>
    /\ \E k \in 1..Len(VULNERABILITY_PATTERNS) :
          /\ ExclusionHit(VULNERABILITY_PATTERNS[k], ScanSource)
          /\ Len(finditer(VULNERABILITY_PATTERNS[k].pattern, ScanSource)) > 0

----------------------------------------------------------------------------
(* Catalog listing *)

ListDone == request.route = "/api/ml/patterns" /\ response.status = 200

\* C10: listRules returns, in catalog order, one record per catalog rule,
\* each with exactly the fields id, name, description, severity, category,
\* cweId, swcId; the catalog is left unchanged.
C10_ListRulesFields ==
    /\ VULNERABILITY_PATTERNS = Catalog
    /\ ListDone =>
          /\ Len(response.body.patterns) = Len(VULNERABILITY_PATTERNS)
          /\ \A k \in 1..Len(response.body.patterns) :
                LET p == response.body.patterns[k]
                    rule == VULNERABILITY_PATTERNS[k]
                IN  /\ DOMAIN p = {"id", "name", "description", "severity",
                                   "category", "cweId", "swcId"}
                    /\ p.id = rule.key
                    /\ p.name = rule.name
                    /\ p.description = rule.description
                    /\ p.severity = rule.severity
                    /\ p.category = rule.category
                    /\ p.cweId = rule.cwe_id
                    /\ p.swcId = rule.swc_id

----------------------------------------------------------------------------
(* Snippet rendering *)

SnippetDone == request.route = "extract_code_snippet" /\ response.status = 1

EmptySourceSnippet == SnippetDone /\ request.source_code = <<>>

\* C11 as stated: the snippet of the empty source is the empty snippet for
\* every line number >= 1.
C11_EmptySourceEmptySnippet ==
    EmptySourceSnippet => response.snippet = <<>>

\* C11 as the code has it: the empty source is one empty line, numbered 1.
\* Line numbers 1, 2 and 3 have it inside their two lines of context and
\* render it, as ">>> 1: " for line number 1 and "    1: " for 2 and 3; the
\* snippet is empty only from line number 4 on.
C11_EmptySourceOneBlankLine ==
    EmptySourceSnippet =>
        response.snippet =
            IF request.line_number = 1 THEN <<">>> ", "1", ": ">>
            ELSE IF request.line_number <= DefaultContextLines + 1
                 THEN <<"    ", "1", ": ">>
            ELSE <<>>

\* C11 witness: the snippet of the empty source at line number 1
C11_Witness ==
    /\ EmptySourceSnippet
    /\ request.line_number = 1
    /\ response.snippet # <<>>

----------------------------------------------------------------------------
(* Finding order *)

\* the place in the catalog of the rule that produced finding f
RuleIndexOf(f) ==
    CHOOSE k \in 1..Len(VULNERABILITY_PATTERNS) :
        VULNERABILITY_PATTERNS[k].name = f.name

\* the positions in the source of the matches of a rule that produce a
\* finding: none when the rule is excluded, else the matches that the
\* mitigation policy keeps
FindingPositions(rule, source) ==
    {i \in 1..Len(source) :
        /\ source[i] \in rule.pattern
        /\ ~ExclusionHit(rule, source)
        /\ \/ rule.severity \in {"CRITICAL", "HIGH"}
           \/ ~MitigatedMatch(rule, source, i)}

\* the m-th of a set of positions, in ascending order
NthPosition(positions, m) ==
    CHOOSE i \in positions : Cardinality({j \in positions : j < i}) = m - 1

\* C12: the Finding list of a scan is ordered by the catalog order of the
\* producing rule and, within one rule, by ascending match position: no
\* Finding of a later rule precedes one of an earlier rule, and every match
\* that produces a Finding keeps its own (same rule or not, same line or
\* not), the m-th Finding of a rule being that of its m-th such match.
C12_FindingOrder ==
    ScanDone =>
        /\ \A i, j \in 1..Len(ScanFindings) :
              i < j => RuleIndexOf(ScanFindings[i])
                           <= RuleIndexOf(ScanFindings[j])
        /\ \A k \in 1..Len(VULNERABILITY_PATTERNS) :
              LET rule == VULNERABILITY_PATTERNS[k]
                  fs == RuleFindings(rule)
                  positions == FindingPositions(rule, ScanSource)
              IN  /\ Len(fs) = Cardinality(positions)
                  /\ \A m \in 1..Len(fs) :
                        fs[m].lineNumber
                            = get_line_number(ScanSource,
                                              NthPosition(positions, m))

\* C12 witness: two rules match the same text on two lines; the earlier
\* rule's Finding of the later line precedes the later rule's Finding of
\* the earlier line, and both rules keep their Finding of each line
C12_Witness ==
    /\ ScanDone
    /\ \E i, j \in 1..Len(ScanFindings) :
          /\ i < j
          /\ RuleIndexOf(ScanFindings[i]) < RuleIndexOf(ScanFindings[j])
          /\ ScanFindings[i].lineNumber > ScanFindings[j].lineNumber
    /\ \E i, j \in 1..Len(ScanFindings) :
          /\ i < j
          /\ RuleIndexOf(ScanFindings[i]) = RuleIndexOf(ScanFindings[j])
          /\ ScanFindings[i].lineNumber < ScanFindings[j].lineNumber
    /\ \E i, j \in 1..Len(ScanFindings) :
          /\ RuleIndexOf(ScanFindings[i]) # RuleIndexOf(ScanFindings[j])
          /\ ScanFindings[i].lineNumber = ScanFindings[j].lineNumber

----------------------------------------------------------------------------
(* Severity and category tallies *)

\* the sum of the counts of a tally over the given keys
RECURSIVE SumCounts(_, _)
SumCounts(counts, keys) ==
    IF keys = {} THEN 0
    ELSE LET key == CHOOSE key \in keys : TRUE
         IN  counts[key] + SumCounts(counts, keys \ {key})

\* the count a tally gives a value: 0 for a value it has no key for
CountOf(counts, value) ==
    IF value \in DOMAIN counts THEN counts[value] ELSE 0

\* the severity a match of the rule at token i is reported with
EffectiveSeverity(rule, source, i) ==
    IF rule.severity \in {"CRITICAL", "HIGH"}
       /\ MitigatedMatch(rule, source, i)
    THEN "MEDIUM"
    ELSE rule.severity

\* the matches of the whole catalog that produce a finding of the severity
FindingsOfSeverity(source, severity) ==
    {km \in (1..Len(VULNERABILITY_PATTERNS)) \X (1..Len(source)) :
        LET rule == VULNERABILITY_PATTERNS[km[1]]
        IN  /\ km[2] \in FindingPositions(rule, source)
            /\ EffectiveSeverity(rule, source, km[2]) = severity}

\* the findings of the output downgraded from their rule's severity
DowngradedFindings ==
    {i \in 1..Len(ScanFindings) :
        /\ ScanFindings[i].severity = "MEDIUM"
        /\ VULNERABILITY_PATTERNS[RuleIndexOf(ScanFindings[i])].severity
               \in {"CRITICAL", "HIGH"}}

\* the tallies of a metrics object are those of its list of findings
TalliesOf(metrics, findings) ==
    /\ metrics.totalVulnerabilities = Len(findings)
    /\ \A field \in {"severity", "category"} :
          LET counts == IF field = "severity" THEN metrics.severityCount
                        ELSE metrics.categoryCount
          IN  /\ DOMAIN counts
                     = {findings[i][field] : i \in 1..Len(findings)}
              /\ \A value \in DOMAIN counts :
                    counts[value]
                        = Cardinality({i \in 1..Len(findings) :
                                           findings[i][field] = value})
              /\ SumCounts(counts, DOMAIN counts) = Len(findings)

\* C13: the metrics of a scan tally each Finding under its effective
\* severity: a Finding downgraded from CRITICAL / HIGH is counted under
\* MEDIUM and not under its rule's declared severity, and the per-severity
\* counts, like the per-category counts, sum to the number of Findings.
C13_EffectiveSeverityTallies ==
    /\ ScanDone =>
          /\ TalliesOf(response.body.metrics, ScanFindings)
          /\ \A severity \in Severities :
                CountOf(response.body.metrics.severityCount, severity)
                    = Cardinality(FindingsOfSeverity(ScanSource, severity))
    /\ (BatchDone /\ response.status = 200) =>
          \A n \in DOMAIN response.body.results :
              LET r == response.body.results[n]
              IN  r.success => TalliesOf(r.metrics, r.vulnerabilities)

\* C13 witness: a scan with a Finding downgraded to MEDIUM and a Finding
\* of another severity; the downgraded one is counted under MEDIUM and
\* nothing is counted under its rule's declared severity
C13_Witness ==
    /\ ScanDone
    /\ Len(ScanFindings) >= 2
    /\ Cardinality(DowngradedFindings) = 1
    /\ CountOf(response.body.metrics.severityCount, "MEDIUM") = 1
    /\ \E i \in DowngradedFindings :
          LET rule == VULNERABILITY_PATTERNS[RuleIndexOf(ScanFindings[i])]
          IN  CountOf(response.body.metrics.severityCount, rule.severity) = 0

============================================================================
